---- MODULE Spec2Model ----
(***************************************************************************)
(* Model of the BadgerDB buffer manager (src/src/buffer.cpp): frame table, *)
(* page index (hash table), clock replacer and the public page protocol.   *)
(* Every public operation is one atomic step (single-threaded manager).    *)
(***************************************************************************)
EXTENDS Integers, Sequences, FiniteSets, TLC

(* ------------------------------ bounds --------------------------------- *)
NumBufs == 2      \* pool capacity handed to the constructor
MaxPage == 2      \* pages a file may grow to
MaxPin == 2       \* cap on a frame's pin count
MaxData == 1      \* payloads callers write are 1..MaxData, each written once

(* ---------------------------- vocabulary ------------------------------- *)
Files == {"A", "B"}
NULL == "NULL"
NoFrame == 0 - 1
Absent == 0 - 1
INVALID_NUMBER == 0
Frames == 0 .. (NumBufs - 1)
PageNos == 1 .. MaxPage
Keys == Files \X PageNos
NoKey == <<NULL, INVALID_NUMBER>>

VARIABLES bufDescTable, bufPool, hashTable, clockHand, disk, numPages, nextData, alive, rt

vars == <<bufDescTable, bufPool, hashTable, clockHand, disk, numPages, nextData, alive, rt>>

(* ------------------- BufDesc, BufHashTbl, File, Page ------------------- *)
\* BufDesc::Clear()
Clear == [file |-> NULL, pageNo |-> INVALID_NUMBER, pinCnt |-> 0,
          dirty |-> FALSE, refbit |-> FALSE, valid |-> FALSE]

\* BufDesc::Set(file, pageNo)
Set(file, pageNo) == [file |-> file, pageNo |-> pageNo, pinCnt |-> 1,
                      dirty |-> FALSE, refbit |-> TRUE, valid |-> TRUE]

\* a default-constructed Page
EmptyPage == [pno |-> INVALID_NUMBER, data |-> 0]

\* BufHashTbl::lookup: the frame of the key, NoFrame when HashNotFoundException
lookup(hash, file, pageNo) == hash[<<file, pageNo>>]

\* BufHashTbl::insert
insert(hash, file, pageNo, frame) == [hash EXCEPT ![<<file, pageNo>>] = frame]

\* BufHashTbl::remove (the caller tests presence first: absent key throws)
remove(hash, file, pageNo) == [hash EXCEPT ![<<file, pageNo>>] = NoFrame]

\* File::writePage(page): the page carries its own number
writePage(s, file, page) ==
  [s EXCEPT !.disk[file][page.pno] = page.data,
            !.writes = Append(@, [file |-> file, pno |-> page.pno, data |-> page.data])]

(* --------------------------- clock replacer ---------------------------- *)
\* advanceClock stepping over a frame
advanceClockSkip(hand) == (hand + 2) % NumBufs

\* BufMgr::advanceClock
advanceClock(hand) == (hand + 1) % NumBufs

\* the dirty-victim block without its writePage call
EvictDirtyNoWrite(s, h) ==
  LET d == s.desc[h]
  IN IF lookup(s.hash, d.file, d.pageNo) = NoFrame
     THEN [s EXCEPT !.exc = "HashNotFoundException"]
     ELSE [s EXCEPT !.hash = remove(s.hash, d.file, d.pageNo),
                    !.desc[h] = Clear]

\* allocBuf, the dirty-victim block: write back, drop the index entry, clear
EvictDirty(s, h) ==
  LET d == s.desc[h]
      w == writePage(s, d.file, s.pool[h])
  IN IF lookup(w.hash, d.file, d.pageNo) = NoFrame
     THEN [w EXCEPT !.exc = "HashNotFoundException"]
     ELSE [w EXCEPT !.hash = remove(w.hash, d.file, d.pageNo),
                    !.desc[h] = Clear]

\* allocBuf, what happens to a victim with pinCnt = 0 and refbit clear
TakeVictim(s, h) == IF s.desc[h].dirty THEN EvictDirty(s, h) ELSE s

RECURSIVE AllocLoopNoSecondChance(_, _, _, _)
\* the loop taking any frame with pinCnt = 0, whatever its refbit
AllocLoopNoSecondChance(s, start, foundUnpin, n) ==
  LET h == advanceClock(s.hand)
      s1 == [s EXCEPT !.hand = h]
      d == s1.desc[h]
      ret(st, e) == [s |-> st, frame |-> IF e = "none" THEN h ELSE NoFrame,
                     err |-> e, advances |-> n + 1,
                     selPin |-> d.pinCnt, selValid |-> d.valid,
                     selDirty |-> d.valid /\ d.dirty,
                     selKey |-> IF d.valid THEN <<d.file, d.pageNo>> ELSE NoKey]
  IN IF ~d.valid
     THEN ret(s1, "none")
     ELSE IF d.pinCnt = 0
     THEN LET s2 == TakeVictim(s1, h) IN ret(s2, s2.exc)
     ELSE LET s2 == [s1 EXCEPT !.desc[h].refbit = FALSE]
          IN IF h = start
             THEN [s |-> s2, frame |-> NoFrame, err |-> "BufferExceededException",
                   advances |-> n + 1, selPin |-> 0, selValid |-> FALSE,
                   selDirty |-> FALSE, selKey |-> NoKey]
             ELSE AllocLoopNoSecondChance(s2, start, foundUnpin, n + 1)

RECURSIVE AllocLoopLateThrow(_, _, _, _)
\* the loop giving up only on its third revolution without an unpinned frame
AllocLoopLateThrow(s, start, foundUnpin, n) ==
  LET h == advanceClock(s.hand)
      s1 == [s EXCEPT !.hand = h]
      d == s1.desc[h]
      ret(st, e) == [s |-> st, frame |-> IF e = "none" THEN h ELSE NoFrame,
                     err |-> e, advances |-> n + 1,
                     selPin |-> d.pinCnt, selValid |-> d.valid,
                     selDirty |-> d.valid /\ d.dirty,
                     selKey |-> IF d.valid THEN <<d.file, d.pageNo>> ELSE NoKey]
  IN IF ~d.valid
     THEN ret(s1, "none")
     ELSE IF d.pinCnt = 0 /\ ~d.refbit
     THEN LET s2 == TakeVictim(s1, h) IN ret(s2, s2.exc)
     ELSE LET s2 == [s1 EXCEPT !.desc[h].refbit = FALSE]
              fu == foundUnpin \/ d.pinCnt = 0
          IN IF h = start
             THEN IF ~fu /\ n + 1 > 2 * NumBufs
                  THEN [s |-> s2, frame |-> NoFrame, err |-> "BufferExceededException",
                        advances |-> n + 1, selPin |-> 0, selValid |-> FALSE,
                        selDirty |-> FALSE, selKey |-> NoKey]
                  ELSE AllocLoopLateThrow(s2, start, FALSE, n + 1)
             ELSE AllocLoopLateThrow(s2, start, fu, n + 1)

RECURSIVE AllocLoop(_, _, _, _)
\* BufMgr::allocBuf, the while(1) loop; n counts advances of the hand
AllocLoop(s, start, foundUnpin, n) ==
  LET h == advanceClock(s.hand)
      s1 == [s EXCEPT !.hand = h]
      d == s1.desc[h]
      ret(st, e) == [s |-> st, frame |-> IF e = "none" THEN h ELSE NoFrame,
                     err |-> e, advances |-> n + 1,
                     selPin |-> d.pinCnt, selValid |-> d.valid,
                     selDirty |-> d.valid /\ d.dirty,
                     selKey |-> IF d.valid THEN <<d.file, d.pageNo>> ELSE NoKey]
  IN IF ~d.valid
     THEN ret(s1, "none")
     ELSE IF d.pinCnt = 0 /\ ~d.refbit
     THEN LET s2 == TakeVictim(s1, h) IN ret(s2, s2.exc)
     ELSE LET s2 == [s1 EXCEPT !.desc[h].refbit = FALSE]
              fu == foundUnpin \/ d.pinCnt = 0
          IN IF h = start
             THEN IF ~fu
                  THEN [s |-> s2, frame |-> NoFrame, err |-> "BufferExceededException",
                        advances |-> n + 1, selPin |-> 0, selValid |-> FALSE,
                        selDirty |-> FALSE, selKey |-> NoKey]
                  ELSE AllocLoop(s2, start, FALSE, n + 1)
             ELSE AllocLoop(s2, start, fu, n + 1)

\* allocBuf remembering the frame after the hand as the start of the revolution
allocBufStartAhead(s) == AllocLoop(s, advanceClock(s.hand), FALSE, 0)

\* BufMgr::allocBuf
allocBuf(s) == AllocLoop(s, s.hand, FALSE, 0)

(* ------------------------------ state ---------------------------------- *)
\* the manager and the stores as one value; writes and deletes log the
\* writePage and deletePage calls of the operation in progress
Cur == [desc |-> bufDescTable, pool |-> bufPool, hash |-> hashTable,
        hand |-> clockHand, disk |-> disk, np |-> numPages,
        writes |-> <<>>, deletes |-> <<>>, exc |-> "none"]

Install(s) ==
  /\ bufDescTable' = s.desc
  /\ bufPool' = s.pool
  /\ hashTable' = s.hash
  /\ clockHand' = s.hand
  /\ disk' = s.disk
  /\ numPages' = s.np

\* BufMgr::BufMgr
Init ==
  /\ bufDescTable = [f \in Frames |-> Clear]
  /\ bufPool = [f \in Frames |-> EmptyPage]
  /\ hashTable = [k \in Keys |-> NoFrame]
  /\ clockHand = NumBufs - 1
  /\ disk = [fl \in Files |-> [p \in PageNos |-> Absent]]
  /\ numPages = [fl \in Files |-> 0]
  /\ nextData = 1
  /\ alive = TRUE
  /\ rt = [phase |-> "idle", frame |-> NoFrame, data |-> 0, evicted |-> FALSE,
           ok |-> TRUE]

(* --------------------------- public operations ------------------------- *)
\* what an operation hands back: the state it leaves, the exception it raised,
\* the frame whose Page it returned (or stopped at), the page number it
\* returned, whether the lookup hit, and the allocBuf call it made (if any)
NoAlloc == [called |-> FALSE, err |-> "none", frame |-> NoFrame, advances |-> 0,
            selPin |-> 0, selValid |-> FALSE, selDirty |-> FALSE, selKey |-> NoKey]

Result(s, err, frame, pageNo, hit, a) ==
  [s |-> s, err |-> err, frame |-> frame, page |-> pageNo, hit |-> hit, alloc |-> a]

AllocInfo(r) == [called |-> TRUE, err |-> r.err, frame |-> r.frame,
                 advances |-> r.advances, selPin |-> r.selPin, selValid |-> r.selValid,
                 selDirty |-> r.selDirty, selKey |-> r.selKey]

\* readPage, the hit branch
ReadHit(s, frame) == [s EXCEPT !.desc[frame].refbit = TRUE,
                               !.desc[frame].pinCnt = @ + 1]

\* readPage, the miss branch after allocBuf returned `frame`
ReadLoad(s, file, pageNo, frame) ==
  [s EXCEPT !.pool[frame] = [pno |-> pageNo, data |-> s.disk[file][pageNo]],
            !.desc[frame] = Set(file, pageNo),
            !.hash = insert(s.hash, file, pageNo, frame)]

\* readPage undoing what a failed allocBuf did to the frames
readPageOpRollback(s, file, pageNo) ==
  LET frame == lookup(s.hash, file, pageNo)
  IN IF frame # NoFrame
     THEN Result(ReadHit(s, frame), "none", frame, pageNo, TRUE, NoAlloc)
     ELSE LET r == allocBuf(s)
          IN IF r.err # "none"
             THEN Result(s, r.err, NoFrame, pageNo, FALSE, AllocInfo(r))
             ELSE IF r.s.disk[file][pageNo] = Absent
             THEN Result(r.s, "InvalidPageException", NoFrame, pageNo, FALSE, AllocInfo(r))
             ELSE Result(ReadLoad(r.s, file, pageNo, r.frame), "none", r.frame, pageNo,
                         FALSE, AllocInfo(r))

\* BufMgr::readPage as a function of the state
readPageOp(s, file, pageNo) ==
  LET frame == lookup(s.hash, file, pageNo)
  IN IF frame # NoFrame
     THEN Result(ReadHit(s, frame), "none", frame, pageNo, TRUE, NoAlloc)
     ELSE LET r == allocBuf(s)
          IN IF r.err # "none"
             THEN Result(r.s, r.err, NoFrame, pageNo, FALSE, AllocInfo(r))
             ELSE IF r.s.disk[file][pageNo] = Absent
             THEN Result(r.s, "InvalidPageException", NoFrame, pageNo, FALSE, AllocInfo(r))
             ELSE Result(ReadLoad(r.s, file, pageNo, r.frame), "none", r.frame, pageNo,
                         FALSE, AllocInfo(r))

\* BufMgr::readPage
readPage(file, pageNo) ==
  /\ alive
  /\ lookup(hashTable, file, pageNo) # NoFrame
       => bufDescTable[lookup(hashTable, file, pageNo)].pinCnt < MaxPin
  /\ Install(readPageOp(Cur, file, pageNo).s)
  /\ UNCHANGED <<alive, nextData>>

\* the body of unPinPage without its pinCnt == 0 test
UnPinFrameNoCheck(s, frame, dirty) ==
  [s EXCEPT !.desc[frame].pinCnt = @ - 1,
            !.desc[frame].dirty = IF dirty THEN TRUE ELSE @]

\* unPinPage, the body after a successful lookup
UnPinFrame(s, frame, dirty) ==
  IF s.desc[frame].pinCnt = 0
  THEN [s EXCEPT !.exc = "PageNotPinnedException"]
  ELSE [s EXCEPT !.desc[frame].pinCnt = @ - 1,
                 !.desc[frame].dirty = IF dirty THEN TRUE ELSE @]

\* BufMgr::unPinPage as a function of the state
unPinPageOp(s, file, pageNo, dirty) ==
  LET frame == lookup(s.hash, file, pageNo)
  IN IF frame = NoFrame
     THEN Result(s, "none", NoFrame, pageNo, FALSE, NoAlloc)
     ELSE LET s1 == UnPinFrame(s, frame, dirty)
          IN Result([s1 EXCEPT !.exc = "none"], s1.exc, frame, pageNo, TRUE, NoAlloc)

\* BufMgr::unPinPage
unPinPage(file, pageNo, dirty) ==
  /\ alive
  /\ Install(unPinPageOp(Cur, file, pageNo, dirty).s)
  /\ UNCHANGED <<alive, nextData>>

\* the body of the flushFile loop writing a dirty frame before its pinCnt test
FlushFrameWriteFirst(s, i) ==
  LET d == s.desc[i]
      w == IF d.dirty
           THEN [writePage(s, d.file, s.pool[i]) EXCEPT !.desc[i].dirty = FALSE]
           ELSE s
  IN IF ~d.valid THEN [s EXCEPT !.exc = "BadBufferException"]
     ELSE IF d.pinCnt > 0 THEN [w EXCEPT !.exc = "PagePinnedException"]
     ELSE IF lookup(w.hash, d.file, d.pageNo) = NoFrame
     THEN [w EXCEPT !.exc = "HashNotFoundException"]
     ELSE [w EXCEPT !.hash = remove(w.hash, d.file, d.pageNo),
                    !.desc[i] = Clear]

\* flushFile, the body of the loop for one frame owned by the file
FlushFrame(s, i) ==
  LET d == s.desc[i]
  IN IF ~d.valid THEN [s EXCEPT !.exc = "BadBufferException"]
     ELSE IF d.pinCnt > 0 THEN [s EXCEPT !.exc = "PagePinnedException"]
     ELSE LET w == IF d.dirty
                   THEN [writePage(s, d.file, s.pool[i]) EXCEPT !.desc[i].dirty = FALSE]
                   ELSE s
          IN IF lookup(w.hash, d.file, d.pageNo) = NoFrame
             THEN [w EXCEPT !.exc = "HashNotFoundException"]
             ELSE [w EXCEPT !.hash = remove(w.hash, d.file, d.pageNo),
                            !.desc[i] = Clear]

RECURSIVE FlushLoop(_, _, _)
\* flushFile, the scan over the frames; returns the state and the frame it stopped at
FlushLoop(s, file, i) ==
  IF i = NumBufs THEN [s |-> s, at |-> NoFrame]
  ELSE IF s.desc[i].file = file
       THEN LET s1 == FlushFrame(s, i)
            IN IF s1.exc # "none" THEN [s |-> s1, at |-> i]
               ELSE FlushLoop(s1, file, i + 1)
       ELSE FlushLoop(s, file, i + 1)

\* BufMgr::flushFile as a function of the state
flushFileOp(s, file) ==
  LET r == FlushLoop(s, file, 0)
  IN Result([r.s EXCEPT !.exc = "none"], r.s.exc, r.at, INVALID_NUMBER, FALSE, NoAlloc)

\* BufMgr::flushFile
flushFile(file) ==
  /\ alive
  /\ Install(flushFileOp(Cur, file).s)
  /\ UNCHANGED <<alive, nextData>>

\* File::allocatePage: append a zeroed page
allocatePage(s, file) ==
  [s EXCEPT !.np[file] = @ + 1, !.disk[file][s.np[file] + 1] = 0]

\* allocPage, installing the new page in the frame allocBuf returned
AllocInstall(s, file, pageNo, frame) ==
  [s EXCEPT !.pool[frame] = [pno |-> pageNo, data |-> 0],
            !.desc[frame] = Set(file, pageNo),
            !.hash = insert(s.hash, file, pageNo, frame)]

\* allocPage asking for a frame before it asks the file for a page
allocPageOpFrameFirst(s, file) ==
  LET pageNo == s.np[file] + 1
      r == allocBuf(s)
  IN IF r.err # "none"
     THEN Result(r.s, r.err, NoFrame, INVALID_NUMBER, FALSE, AllocInfo(r))
     ELSE Result(AllocInstall(allocatePage(r.s, file), file, pageNo, r.frame), "none",
                 r.frame, pageNo, FALSE, AllocInfo(r))

\* BufMgr::allocPage as a function of the state
allocPageOp(s, file) ==
  LET pageNo == s.np[file] + 1
      r == allocBuf(allocatePage(s, file))
  IN IF r.err # "none"
     THEN Result(r.s, r.err, NoFrame, INVALID_NUMBER, FALSE, AllocInfo(r))
     ELSE Result(AllocInstall(r.s, file, pageNo, r.frame), "none", r.frame, pageNo,
                 FALSE, AllocInfo(r))

\* BufMgr::allocPage
allocPage(file) ==
  /\ alive
  /\ numPages[file] < MaxPage
  /\ Install(allocPageOp(Cur, file).s)
  /\ UNCHANGED <<alive, nextData>>

\* the body of disposePage without its pinCnt > 0 test
DisposeFrameNoCheck(s, file, PageNo, frame) ==
  [s EXCEPT !.desc[frame] = Clear,
            !.hash = remove(s.hash, file, PageNo)]

\* the body of disposePage that clears the frame and keeps its index entry
DisposeFrameKeepEntry(s, file, PageNo, frame) ==
  IF s.desc[frame].pinCnt > 0
  THEN [s EXCEPT !.exc = "PagePinnedException"]
  ELSE [s EXCEPT !.desc[frame] = Clear]

\* disposePage, the body after a successful lookup
DisposeFrame(s, file, PageNo, frame) ==
  IF s.desc[frame].pinCnt > 0
  THEN [s EXCEPT !.exc = "PagePinnedException"]
  ELSE [s EXCEPT !.desc[frame] = Clear,
                 !.hash = remove(s.hash, file, PageNo)]

\* File::deletePage
deletePage(s, file, PageNo) ==
  LET s1 == [s EXCEPT !.deletes = Append(@, <<file, PageNo>>)]
  IN IF s.disk[file][PageNo] = Absent
     THEN [s1 EXCEPT !.exc = "InvalidPageException"]
     ELSE [s1 EXCEPT !.disk[file][PageNo] = Absent]

\* BufMgr::disposePage as a function of the state
disposePageOp(s, file, PageNo) ==
  LET frame == lookup(s.hash, file, PageNo)
      s1 == IF frame = NoFrame THEN s ELSE DisposeFrame(s, file, PageNo, frame)
      s2 == IF s1.exc # "none" THEN s1 ELSE deletePage(s1, file, PageNo)
  IN Result([s2 EXCEPT !.exc = "none"], s2.exc, frame, PageNo, frame # NoFrame, NoAlloc)

\* BufMgr::disposePage
disposePage(file, PageNo) ==
  /\ alive
  /\ Install(disposePageOp(Cur, file, PageNo).s)
  /\ UNCHANGED <<alive, nextData>>

\* ~BufMgr, the body of the loop for one frame (every file stays open)
TeardownFrame(s, i) ==
  IF s.desc[i].file # NULL /\ s.desc[i].dirty
  THEN [writePage(s, s.desc[i].file, s.pool[i]) EXCEPT !.desc[i] = Clear]
  ELSE s

RECURSIVE TeardownLoop(_, _)
\* ~BufMgr, the loop over the frames
TeardownLoop(s, i) ==
  IF i = NumBufs THEN s ELSE TeardownLoop(TeardownFrame(s, i), i + 1)

\* BufMgr::~BufMgr
Teardown ==
  /\ alive
  /\ alive' = FALSE
  /\ Install(TeardownLoop(Cur, 0))
  /\ UNCHANGED nextData

\* a caller writes a payload nobody wrote before through the Page pointer of
\* a frame it has pinned
Modify(frame) ==
  /\ alive
  /\ bufDescTable[frame].pinCnt > 0
  /\ nextData <= MaxData
  /\ bufPool' = [bufPool EXCEPT ![frame].data = nextData]
  /\ nextData' = nextData + 1
  /\ UNCHANGED <<bufDescTable, hashTable, clockHand, disk, numPages, alive>>

Step ==
  \/ \E file \in Files, pageNo \in PageNos : readPage(file, pageNo)
  \/ \E file \in Files, pageNo \in PageNos, dirty \in BOOLEAN : unPinPage(file, pageNo, dirty)
  \/ \E file \in Files : flushFile(file)
  \/ \E file \in Files : allocPage(file)
  \/ \E file \in Files, PageNo \in PageNos : disposePage(file, PageNo)
  \/ Teardown

Next == Step /\ UNCHANGED rt

\* every history of the manager's operations; payloads stay as allocated
Spec == Init /\ [][Next]_vars

(* ------------- callers that write payloads, and one followed page ------ *)
\* rt follows the page Followed from its allocPage through the caller's write,
\* its unPinPage(dirty), the reuse of its frame and its next readPage
Followed == <<"B", 1>>

RtIdle == [phase |-> "idle", frame |-> NoFrame, data |-> 0, evicted |-> FALSE, ok |-> TRUE]
RtVoid == [RtIdle EXCEPT !.phase = "void"]

\* the operation gave the followed page's frame to another page
Evicts(r) ==
  /\ r.alloc.called /\ r.alloc.err = "none" /\ r.alloc.frame = rt.frame
  /\ (r.err = "none" \/ r.alloc.selDirty)

Touch(r) == IF Evicts(r) THEN [rt EXCEPT !.evicted = TRUE] ELSE rt

Tracking == rt.phase \in {"alloc", "mod", "unp"}

RtRead(file, pageNo, r) ==
  IF ~Tracking THEN rt
  ELSE IF <<file, pageNo>> # Followed THEN Touch(r)
  ELSE IF rt.phase = "unp" /\ r.err # "none" THEN rt
  ELSE IF rt.phase = "unp" /\ rt.evicted
  THEN [RtIdle EXCEPT !.phase = "done",
                      !.ok = (r.s.pool[r.frame] = [pno |-> pageNo, data |-> rt.data])]
  ELSE RtVoid

RtUnPin(file, pageNo, dirty, r) ==
  IF ~Tracking \/ <<file, pageNo>> # Followed THEN rt
  ELSE IF rt.phase = "mod" /\ dirty /\ r.err = "none" THEN [rt EXCEPT !.phase = "unp"]
  ELSE RtVoid

RtAlloc(file, r) ==
  IF rt.phase = "idle"
  THEN IF r.err = "none" /\ <<file, r.page>> = Followed
       THEN [rt EXCEPT !.phase = "alloc", !.frame = r.frame]
       ELSE rt
  ELSE IF Tracking THEN Touch(r) ELSE rt

RtModify(frame) ==
  IF ~Tracking \/ frame # rt.frame THEN rt
  ELSE IF rt.phase \in {"alloc", "mod"} /\ ~rt.evicted
  THEN [rt EXCEPT !.phase = "mod", !.data = nextData]
  ELSE IF rt.evicted /\ rt.phase = "unp" THEN rt
  ELSE RtVoid

StepW ==
  \/ \E file \in Files, pageNo \in PageNos : readPage(file, pageNo)
  \/ \E file \in Files, pageNo \in PageNos, dirty \in BOOLEAN : unPinPage(file, pageNo, dirty)
  \/ \E file \in Files : allocPage(file)
  \/ \E frame \in Frames : Modify(frame)
  \/ Teardown

NextW == StepW /\ UNCHANGED rt

\* histories of readPage, unPinPage and allocPage with callers writing payloads
SpecW == Init /\ [][NextW]_vars

NextRT ==
  \/ \E file \in Files, pageNo \in PageNos :
       /\ readPage(file, pageNo)
       /\ rt' = RtRead(file, pageNo, readPageOp(Cur, file, pageNo))
  \/ \E file \in Files, pageNo \in PageNos, dirty \in BOOLEAN :
       /\ unPinPage(file, pageNo, dirty)
       /\ rt' = RtUnPin(file, pageNo, dirty, unPinPageOp(Cur, file, pageNo, dirty))
  \/ \E file \in Files :
       /\ allocPage(file)
       /\ rt' = RtAlloc(file, allocPageOp(Cur, file))
  \/ \E frame \in Frames : Modify(frame) /\ rt' = RtModify(frame)

\* the same histories with the followed page's round trip recorded in rt
SpecRT == Init /\ [][NextRT]_vars

(* ------------- the followed page from unPinPage(dirty) to teardown ----- *)
\* the operation issued a writePage of the followed page
Reaches(s) ==
  \E i \in 1 .. Len(s.writes) :
     s.writes[i].file = Followed[1] /\ s.writes[i].pno = Followed[2]

\* rt.phase = "unp": unPinPage marked the followed page dirty in its frame and
\* no writePage of it has been issued since
LifeUnPin(file, pageNo, dirty, r) ==
  IF /\ rt.phase = "idle" /\ <<file, pageNo>> = Followed /\ dirty
     /\ r.err = "none" /\ r.hit
     /\ bufDescTable[r.frame].valid
     /\ <<bufDescTable[r.frame].file, bufDescTable[r.frame].pageNo>> = Followed
  THEN [rt EXCEPT !.phase = "unp", !.frame = r.frame]
  ELSE rt

LifeWrite(r) == IF rt.phase = "unp" /\ Reaches(r.s) THEN RtVoid ELSE rt

LifeDispose(file, PageNo, r) ==
  IF rt.phase = "unp" /\ <<file, PageNo>> = Followed /\ r.err = "none"
  THEN RtVoid
  ELSE rt

LifeTeardown(s) ==
  IF rt.phase = "unp" THEN [RtIdle EXCEPT !.phase = "done", !.ok = Reaches(s)] ELSE rt

NextLife ==
  \/ \E file \in Files, pageNo \in PageNos :
       /\ readPage(file, pageNo)
       /\ rt' = LifeWrite(readPageOp(Cur, file, pageNo))
  \/ \E file \in Files, pageNo \in PageNos, dirty \in BOOLEAN :
       /\ unPinPage(file, pageNo, dirty)
       /\ rt' = LifeUnPin(file, pageNo, dirty, unPinPageOp(Cur, file, pageNo, dirty))
  \/ \E file \in Files :
       /\ flushFile(file)
       /\ rt' = LifeWrite(flushFileOp(Cur, file))
  \/ \E file \in Files :
       /\ allocPage(file)
       /\ rt' = LifeWrite(allocPageOp(Cur, file))
  \/ \E file \in Files, PageNo \in PageNos :
       /\ disposePage(file, PageNo)
       /\ rt' = LifeDispose(file, PageNo, disposePageOp(Cur, file, PageNo))
  \/ Teardown /\ rt' = LifeTeardown(TeardownLoop(Cur, 0))

\* every history of the manager's operations up to its teardown, with the
\* followed page's way to the store recorded in rt
SpecLife == Init /\ [][NextLife]_vars

(* ------------------------------- claims -------------------------------- *)
\* The claims speak of what a call does from a state the manager can be in:
\* each one quantifies over the calls a caller can make in the current state
\* and looks at the result the operation computes for it.
Owner(d) == <<d.file, d.pageNo>>
Held(k) == \E f \in Frames : bufDescTable[f].valid /\ Owner(bufDescTable[f]) = k
AllocFiles == {file \in Files : numPages[file] < MaxPage}
MissKeys == {k \in Keys : lookup(hashTable, k[1], k[2]) = NoFrame}
Wrote(s, file, page) ==
  \E i \in 1 .. Len(s.writes) :
     s.writes[i] = [file |-> file, pno |-> page.pno, data |-> page.data]

\* the states handed to allocBuf by the calls that can reach it now
AllocCalls == {Cur : k \in MissKeys} \cup {allocatePage(Cur, file) : file \in AllocFiles}

\* C1: the frame allocBuf returns (from a readPage miss or from allocPage)
\* never has pinCnt > 0 at the moment it is selected.
C1_NoPinnedVictim ==
  alive => \A s \in AllocCalls :
             LET a == allocBuf(s) IN a.frame # NoFrame => a.selPin = 0

\* C2: between operations the page index and the frame table agree: the index
\* maps key k to frame f exactly when f is valid and owned by k.
C2_IndexAgrees ==
  alive => \A k \in Keys, f \in Frames :
             (lookup(hashTable, k[1], k[2]) = f)
               <=> (bufDescTable[f].valid /\ Owner(bufDescTable[f]) = k)

\* C3: a successful readPage(file, pageNo) returns a frame that is valid, owned
\* by (file, pageNo), pinned, and holding that page: on a miss the store's
\* content, on a hit the content the frame already held for that page.
C3_ReadReturnsPage ==
  alive => \A k \in Keys :
    LET r == readPageOp(Cur, k[1], k[2])
        d == r.s.desc[r.frame]
    IN r.err = "none" =>
         /\ d.valid /\ Owner(d) = k /\ d.pinCnt >= 1
         /\ r.s.pool[r.frame].pno = k[2]
         /\ ~r.hit => r.s.pool[r.frame].data = disk[k[1]][k[2]]
         /\ r.hit => r.s.pool[r.frame] = bufPool[r.frame]

\* a frame that was valid and dirty before and is no longer the dirty frame of
\* the same page afterwards had its content written (but for the page `but`)
KeptOrWritten(s, but) ==
  \A f \in Frames :
    LET d == bufDescTable[f] IN
    (d.valid /\ d.dirty /\ Owner(d) # but
       /\ ~(s.desc[f].valid /\ s.desc[f].dirty /\ Owner(s.desc[f]) = Owner(d)))
      => Wrote(s, d.file, bufPool[f])

\* C4: a dirty page is never silently discarded: whatever operation clears or
\* reuses a valid dirty frame has first written its content with writePage,
\* except disposePage of that very page.
C4_NoSilentDiscard ==
  alive =>
    /\ \A k \in Keys : KeptOrWritten(readPageOp(Cur, k[1], k[2]).s, NoKey)
    /\ \A k \in Keys, dirty \in BOOLEAN :
          KeptOrWritten(unPinPageOp(Cur, k[1], k[2], dirty).s, NoKey)
    /\ \A file \in AllocFiles : KeptOrWritten(allocPageOp(Cur, file).s, NoKey)
    /\ \A file \in Files : KeptOrWritten(flushFileOp(Cur, file).s, NoKey)
    /\ \A k \in Keys : KeptOrWritten(disposePageOp(Cur, k[1], k[2]).s, k)
    /\ KeptOrWritten(TeardownLoop(Cur, 0), NoKey)

\* C5: when allocBuf selects a valid dirty victim, the store sees exactly one
\* writePage, carrying the frame's content from before the eviction, and when
\* allocBuf returns the index no longer holds the victim's key.
C5_DirtyVictimWritten ==
  alive => \A s \in AllocCalls :
    LET a == allocBuf(s)
        h == a.s.hand
    IN a.selDirty =>
         /\ a.err = "none" /\ a.frame = h
         /\ a.s.writes = <<[file |-> a.selKey[1], pno |-> bufPool[h].pno,
                            data |-> bufPool[h].data]>>
         /\ a.s.disk[a.selKey[1]][a.selKey[2]] = bufPool[h].data
         /\ lookup(a.s.hash, a.selKey[1], a.selKey[2]) = NoFrame

\* a call reaches allocBuf, which evicts a dirty victim holding a payload a
\* caller wrote and the store does not have yet
C5_Witness ==
  /\ alive
  /\ \E s \in AllocCalls :
       LET a == allocBuf(s)
       IN /\ a.selDirty /\ a.err = "none"
          /\ bufPool[a.s.hand].data > 0
          /\ disk[a.selKey[1]][a.selKey[2]] # bufPool[a.s.hand].data

\* C6: once every frame is valid and pinned, readPage of any page that no
\* frame holds fails with BufferExceededException.
C6_Exhaustion ==
  (alive /\ \A f \in Frames : bufDescTable[f].valid /\ bufDescTable[f].pinCnt > 0)
    => \A k \in Keys :
         ~Held(k) => readPageOp(Cur, k[1], k[2]).err = "BufferExceededException"

\* C7: allocPage of a page, a caller's write to its frame, unPinPage(dirty),
\* the reuse of its frame for other pages and then readPage of the page give
\* back exactly what the caller wrote, whatever readPage, unPinPage and
\* allocPage calls on other pages come in between.
C7_RoundTrip == rt.phase = "done" => rt.ok

\* C8: pin counts are never negative; unPinPage of a buffered page with
\* pinCnt 0 raises PageNotPinnedException and leaves pinCnt and dirty alone
\* (also when dirty is asked for); otherwise pinCnt goes down by exactly one.
C8_PinDiscipline ==
  /\ \A f \in Frames : bufDescTable[f].pinCnt >= 0
  /\ alive => \A k \in Keys, dirty \in BOOLEAN :
       LET f == lookup(hashTable, k[1], k[2])
           r == unPinPageOp(Cur, k[1], k[2], dirty)
       IN f # NoFrame =>
            IF bufDescTable[f].pinCnt = 0
            THEN /\ r.err = "PageNotPinnedException"
                 /\ r.s.desc[f].pinCnt = 0
                 /\ r.s.desc[f].dirty = bufDescTable[f].dirty
            ELSE /\ r.err = "none"
                 /\ r.s.desc[f].pinCnt = bufDescTable[f].pinCnt - 1

\* unPinPage(dirty = true) of a buffered clean page that nobody has pinned
C8_Witness ==
  /\ alive
  /\ \E k \in Keys :
       LET f == lookup(hashTable, k[1], k[2])
       IN /\ f # NoFrame
          /\ bufDescTable[f].valid /\ Owner(bufDescTable[f]) = k
          /\ bufDescTable[f].pinCnt = 0 /\ ~bufDescTable[f].dirty
          /\ unPinPageOp(Cur, k[1], k[2], TRUE).err = "PageNotPinnedException"

\* C9: unPinPage of a page that no frame holds raises nothing and changes no
\* frame's pinCnt or dirty flag.
C9_UnpinAbsentNoOp ==
  alive => \A k \in Keys, dirty \in BOOLEAN :
    LET r == unPinPageOp(Cur, k[1], k[2], dirty)
    IN ~Held(k) =>
         /\ r.err = "none"
         /\ \A f \in Frames : /\ r.s.desc[f].pinCnt = bufDescTable[f].pinCnt
                              /\ r.s.desc[f].dirty = bufDescTable[f].dirty

\* C10: flushFile(file) with no frame of the file pinned leaves no index entry
\* for any page of the file and every frame the file owned cleared, having
\* written exactly the dirty ones; a second flushFile(file) changes nothing
\* and writes nothing.
C10_FlushClearsFile ==
  alive => \A file \in Files :
    LET mine == {f \in Frames : bufDescTable[f].file = file}
        r == flushFileOp(Cur, file)
        again == flushFileOp([r.s EXCEPT !.writes = <<>>], file)
    IN (\A f \in mine : bufDescTable[f].pinCnt = 0) =>
         /\ r.err = "none"
         /\ \A p \in PageNos : lookup(r.s.hash, file, p) = NoFrame
         /\ \A f \in mine : r.s.desc[f] = Clear
         /\ Len(r.s.writes) = Cardinality({f \in mine : bufDescTable[f].dirty})
         /\ \A f \in mine : bufDescTable[f].dirty => Wrote(r.s, file, bufPool[f])
         /\ again.err = "none"
         /\ again.s = [r.s EXCEPT !.writes = <<>>]

\* C11: disposePage of a page that a frame holds with pinCnt > 0 raises
\* PagePinnedException and leaves the page buffered as it was (same frame,
\* same descriptor and content, index entry in place) and in the store:
\* deletePage is not called.
C11_DisposePinned ==
  alive => \A k \in Keys, f \in Frames :
    LET d == bufDescTable[f]
        r == disposePageOp(Cur, k[1], k[2])
    IN (d.valid /\ Owner(d) = k /\ d.pinCnt > 0) =>
         /\ r.err = "PagePinnedException"
         /\ r.s.desc = bufDescTable /\ r.s.pool = bufPool
         /\ r.s.hash = hashTable /\ lookup(r.s.hash, k[1], k[2]) = f
         /\ r.s.deletes = <<>>
         /\ r.s.disk = disk /\ disk[k[1]][k[2]] # Absent

\* disposePage of a dirty page that a caller still has pinned
C11_Witness ==
  /\ alive
  /\ \E k \in Keys, f \in Frames :
       /\ bufDescTable[f].valid /\ Owner(bufDescTable[f]) = k
       /\ bufDescTable[f].pinCnt > 0 /\ bufDescTable[f].dirty
       /\ disposePageOp(Cur, k[1], k[2]).err = "PagePinnedException"

\* C12: a disposePage(file, p) that raises nothing issues no writePage (also
\* when p's frame was dirty), calls deletePage(p) exactly once whether p was
\* buffered or not, and leaves no index entry for (file, p) and no frame
\* owned by (file, p).
C12_DisposeDeletes ==
  alive => \A k \in Keys :
    LET r == disposePageOp(Cur, k[1], k[2])
    IN r.err = "none" =>
         /\ r.s.writes = <<>>
         /\ r.s.deletes = <<k>>
         /\ r.s.disk[k[1]][k[2]] = Absent
         /\ lookup(r.s.hash, k[1], k[2]) = NoFrame
         /\ \A f \in Frames : ~(r.s.desc[f].valid /\ Owner(r.s.desc[f]) = k)

\* disposePage succeeds on a page held in a dirty unpinned frame, and on a
\* page of the store that no frame holds and the index does not know
C12_Witness ==
  /\ alive
  /\ \E k \in Keys, f \in Frames :
       /\ bufDescTable[f].valid /\ Owner(bufDescTable[f]) = k
       /\ bufDescTable[f].dirty /\ bufDescTable[f].pinCnt = 0
       /\ disposePageOp(Cur, k[1], k[2]).err = "none"
  /\ \E k \in MissKeys : ~Held(k) /\ disposePageOp(Cur, k[1], k[2]).err = "none"

\* the frame the hand reaches with its n-th advance of a call made in state s
Pos(s, n) == (s.hand + n) % NumBufs

\* what the replacer takes: an invalid frame, or one with pinCnt 0 and refbit clear
Eligible(d) == ~d.valid \/ (d.pinCnt = 0 /\ ~d.refbit)

\* the descriptor the n-th advance finds: from the second revolution on, the
\* first one has cleared its refbit
AtVisit(s, n) ==
  IF n <= NumBufs THEN s.desc[Pos(s, n)]
  ELSE [s.desc[Pos(s, n)] EXCEPT !.refbit = FALSE]

\* C13: second chance. A valid frame with pinCnt 0 and refbit set is not
\* taken by the visit that finds it so: the call goes on and the refbit is
\* clear afterwards; when the hand comes back to it (nobody can pin or
\* reference it in between) it is the victim. A valid frame with pinCnt 0
\* found with refbit clear, as an earlier sweep leaves it, is taken at once.
C13_SecondChance ==
  alive => \A s \in AllocCalls :
    LET a == allocBuf(s)
    IN \A n \in 1 .. NumBufs :
         LET f == Pos(s, n)
             d == s.desc[f]
         IN (d.valid /\ d.pinCnt = 0) =>
              IF d.refbit
              THEN /\ a.advances # n
                   /\ a.advances > n => ~a.s.desc[f].refbit
                   /\ a.advances <= n + NumBufs
                   /\ a.advances = n + NumBufs => a.frame = f
              ELSE /\ a.advances <= n
                   /\ a.advances = n => a.frame = f

\* a call whose first visit passes over a referenced unpinned frame and
\* whose second visit of that frame takes it
C13_Witness ==
  /\ alive
  /\ \E s \in AllocCalls :
       LET a == allocBuf(s)
           d == s.desc[Pos(s, 1)]
       IN /\ d.valid /\ d.pinCnt = 0 /\ d.refbit
          /\ a.frame = Pos(s, 1) /\ a.advances = NumBufs + 1

\* ~BufMgr writes every valid dirty frame's content exactly once and nothing
\* else: one writePage per valid dirty frame, none for a clean or invalid one
TeardownWritesDirty ==
  alive =>
    LET t == TeardownLoop(Cur, 0)
        mine == {f \in Frames : bufDescTable[f].valid /\ bufDescTable[f].dirty}
    IN /\ Len(t.writes) = Cardinality(mine)
       /\ \A f \in mine :
            /\ Wrote(t, bufDescTable[f].file, bufPool[f])
            /\ t.disk[bufDescTable[f].file][bufPool[f].pno] = bufPool[f].data

\* C14: at teardown every valid dirty frame is written exactly once and no
\* clean or invalid frame is written; so a page that unPinPage marked dirty in
\* its frame has had a writePage by the end of the manager's lifetime (unless
\* disposePage deleted it).
C14_TeardownFlushes == TeardownWritesDirty /\ (rt.phase = "done" => rt.ok)

\* C15: allocBuf never loops forever: every call returns a frame or raises
\* BufferExceededException after at most 2 * NumBufs advances of the hand.
C15_AllocBounded ==
  alive => \A s \in AllocCalls :
    LET a == allocBuf(s)
    IN /\ a.advances <= 2 * NumBufs
       /\ \/ a.err = "none" /\ a.frame \in Frames
          \/ a.err = "BufferExceededException" /\ a.frame = NoFrame

\* a call that needs all 2 * NumBufs advances to come back to its victim
C15_Witness ==
  /\ alive
  /\ \E s \in AllocCalls : allocBuf(s).err = "none" /\ allocBuf(s).advances = 2 * NumBufs

\* C16: no spurious exhaustion: allocBuf raises BufferExceededException only
\* when every frame is valid with pinCnt > 0; while some frame is invalid or
\* has pinCnt 0, readPage of a page of the store that no frame holds and
\* allocPage get a frame and raise nothing.
C16_NoSpuriousExhaustion ==
  alive =>
    /\ \A s \in AllocCalls :
         allocBuf(s).err = "BufferExceededException"
           => \A f \in Frames : s.desc[f].valid /\ s.desc[f].pinCnt > 0
    /\ (\E f \in Frames : ~bufDescTable[f].valid \/ bufDescTable[f].pinCnt = 0) =>
         /\ \A k \in Keys :
              LET r == readPageOp(Cur, k[1], k[2])
              IN (~Held(k) /\ disk[k[1]][k[2]] # Absent)
                   => r.err = "none" /\ r.frame \in Frames
         /\ \A file \in AllocFiles :
              LET r == allocPageOp(Cur, file)
              IN r.err = "none" /\ r.frame \in Frames

\* one frame pinned, the other valid, unpinned and referenced, and a page of
\* the store outside the pool: readPage of it and allocPage both get the
\* unpinned frame
C16_Witness ==
  /\ alive
  /\ \E f, g \in Frames :
       /\ bufDescTable[f].valid /\ bufDescTable[f].pinCnt > 0
       /\ bufDescTable[g].valid /\ bufDescTable[g].pinCnt = 0 /\ bufDescTable[g].refbit
       /\ \E k \in MissKeys :
            LET r == readPageOp(Cur, k[1], k[2])
            IN r.err = "none" /\ r.alloc.called /\ r.frame = g
       /\ \E file \in AllocFiles : allocPageOp(Cur, file).frame = g

\* C17: the frame allocBuf returns is the first one the hand reaches, going
\* on by one modulo NumBufs from where it stood, that is invalid or has
\* pinCnt 0 and refbit clear when visited; no frame passed over was so when
\* visited; on return clockHand is the returned frame.
C17_ClockOrder ==
  alive => \A s \in AllocCalls :
    LET a == allocBuf(s)
    IN a.frame # NoFrame =>
         /\ a.frame = Pos(s, a.advances)
         /\ Eligible(AtVisit(s, a.advances))
         /\ \A n \in 1 .. (a.advances - 1) : ~Eligible(AtVisit(s, n))
         /\ a.s.hand = a.frame

\* two unpinned valid frames: the one the hand reaches first is referenced
\* and passed over, the one after it is taken
C17_Witness ==
  /\ alive
  /\ \E s \in AllocCalls :
       LET a == allocBuf(s)
           d == s.desc[Pos(s, 1)]
       IN /\ d.valid /\ d.pinCnt = 0 /\ d.refbit
          /\ a.frame = Pos(s, 2) /\ a.advances = 2 /\ s.desc[a.frame].valid

\* C18: when flushFile(file) raises PagePinnedException (or
\* BadBufferException) at frame i, every frame of the file below i has been
\* written if dirty, removed from the index and cleared, and frame i and the
\* frames above it are as they were: not written, descriptor, content and
\* index entry unchanged.
C18_FlushPartial ==
  alive => \A file \in Files :
    LET r == flushFileOp(Cur, file)
        i == r.frame
        done == {f \in Frames : f < i /\ bufDescTable[f].file = file}
    IN r.err \in {"PagePinnedException", "BadBufferException"} =>
         /\ \A f \in done :
              /\ r.s.desc[f] = Clear
              /\ lookup(r.s.hash, file, bufDescTable[f].pageNo) = NoFrame
              /\ bufDescTable[f].dirty => Wrote(r.s, file, bufPool[f])
         /\ Len(r.s.writes) = Cardinality({f \in done : bufDescTable[f].dirty})
         /\ \A f \in Frames \ done : r.s.desc[f] = bufDescTable[f]
         /\ r.s.pool = bufPool
         /\ \A k \in Keys :
              (\A f \in done : Owner(bufDescTable[f]) # k)
                => lookup(r.s.hash, k[1], k[2]) = lookup(hashTable, k[1], k[2])

\* flushFile stops at a pinned dirty frame of the file after it has flushed a
\* dirty frame of the file below it
C18_Witness ==
  /\ alive
  /\ \E file \in Files :
       LET r == flushFileOp(Cur, file)
       IN /\ r.err = "PagePinnedException" /\ r.frame > 0
          /\ bufDescTable[r.frame].dirty
          /\ \E f \in Frames :
               f < r.frame /\ bufDescTable[f].file = file /\ bufDescTable[f].dirty

\* what a call that raised BufferExceededException left behind
ExceededEffect(r) ==
  r.err = "BufferExceededException" =>
    /\ r.s.hand = clockHand
    /\ r.s.hash = hashTable
    /\ r.s.pool = bufPool
    /\ r.s.writes = <<>>
    /\ \A f \in Frames :
         /\ bufDescTable[f].valid /\ bufDescTable[f].pinCnt > 0
         /\ r.s.desc[f] = [bufDescTable[f] EXCEPT !.refbit = FALSE]

\* C19: a readPage or allocPage that raises BufferExceededException leaves
\* clockHand where it was before the call, the index and every frame's owner,
\* valid, dirty, pinCnt and content unchanged, and issues no writePage; the
\* refbit of every frame (all of them pinned) is clear afterwards.
C19_ExhaustionEffect ==
  alive =>
    /\ \A k \in Keys :
         LET r == readPageOp(Cur, k[1], k[2])
         IN ExceededEffect(r) /\ (r.err = "BufferExceededException" => r.s.disk = disk)
    /\ \A file \in AllocFiles : ExceededEffect(allocPageOp(Cur, file))

\* readPage and allocPage fail for want of a frame while some frame's refbit
\* is set
C19_Witness ==
  /\ alive
  /\ \E f \in Frames : bufDescTable[f].refbit
  /\ \E k \in Keys : readPageOp(Cur, k[1], k[2]).err = "BufferExceededException"
  /\ \E file \in AllocFiles : allocPageOp(Cur, file).err = "BufferExceededException"

\* C20: allocPage calls the file's allocatePage before allocBuf: when it
\* raises BufferExceededException the file has grown by one page that no
\* frame owns and the index does not know, and no page number is returned.
C20_AllocPageLeak ==
  alive => \A file \in AllocFiles :
    LET r == allocPageOp(Cur, file)
        p == numPages[file] + 1
    IN r.err = "BufferExceededException" =>
         /\ r.s.np[file] = p
         /\ disk[file][p] = Absent /\ r.s.disk[file][p] # Absent
         /\ \A fl \in Files, q \in PageNos :
              <<fl, q>> # <<file, p>> => r.s.disk[fl][q] = disk[fl][q]
         /\ lookup(r.s.hash, file, p) = NoFrame
         /\ \A f \in Frames : Owner(r.s.desc[f]) # <<file, p>>
         /\ r.page = INVALID_NUMBER /\ r.frame = NoFrame

\* allocPage on a pool whose frames are all pinned
C20_Witness ==
  /\ alive
  /\ \A f \in Frames : bufDescTable[f].valid /\ bufDescTable[f].pinCnt > 0
  /\ \E file \in AllocFiles : allocPageOp(Cur, file).err = "BufferExceededException"

====
